---------------------------- MODULE Spec2Model ----------------------------
(***************************************************************************)
(* Model of "smart bell project/ai_service.py": the Flask endpoint         *)
(* POST /identify_secure (identify_person_secure) and its enrollment       *)
(* loader load_specific_known_faces.                                       *)
(*                                                                         *)
(* The filesystem is fixed during a behaviour.  A face embedding is a      *)
(* point on a line measured in tenths, so that the distance test of        *)
(* face_recognition.compare_faces, "distance <= tolerance" with tolerance  *)
(* 0.6, reads |a - b| <= 6.  Python strings that the code inspects         *)
(* character by character (file names) are sequences of characters.        *)
(***************************************************************************)
EXTENDS Integers, Sequences, FiniteSets, TLC

VARIABLES
    fs,                     \* the directories on disk (never written)
    pc,                     \* where the handler is
    data,                   \* request.get_json()
    person_idx,             \* position of "for person_id in allowed_ids"
    file_idx,               \* position of "for filename in os.listdir(person_folder)"
    known_face_encodings,   \* list built by load_specific_known_faces
    known_face_names,       \* list built by load_specific_known_faces
    probe_idx,              \* position of "for filename in os.listdir(new_images_path)"
    load_called,            \* history: load_specific_known_faces was called
    probe_listed,           \* history: os.listdir(new_images_path) was called
    decoded,                \* history: positions of the probe files decoded
    resp,                   \* the response of the request
    memo                    \* history: a remembered (request, response) pair

vars == <<fs, pc, data, person_idx, file_idx, known_face_encodings,
          known_face_names, probe_idx, load_called, probe_listed, decoded,
          resp, memo>>

-----------------------------------------------------------------------------
(* Bounds of the model *)

\* files in the whole filesystem
MaxFiles == 3
\* length of allowed_visitor_ids
MaxIds == 2

-----------------------------------------------------------------------------
(* JSON values, as request.get_json() returns them *)

Null == [kind |-> "null", val |-> 0]
Bool(b) == [kind |-> "bool", val |-> b]
Num(n) == [kind |-> "num", val |-> n]
Str(s) == [kind |-> "str", val |-> s]
Arr(s) == [kind |-> "arr", val |-> s]
Obj(f) == [kind |-> "obj", val |-> f]

\* Python truth value of a JSON value ("not data")
Truthy(v) ==
    CASE v.kind = "null" -> FALSE
      [] v.kind = "bool" -> v.val
      [] v.kind = "num" -> v.val # 0
      [] v.kind = "str" -> v.val # ""
      [] v.kind = "arr" -> v.val # <<>>
      [] v.kind = "obj" -> DOMAIN v.val # {}

\* whether "key in v" raises TypeError (v is not iterable)
InRaises(v) == v.kind \in {"bool", "num"}

\* "key in v" for a dict (its keys) or a list (its elements)
Contains(v, key) ==
    CASE v.kind = "obj" -> key \in DOMAIN v.val
      [] v.kind = "arr" -> \E n \in 1..Len(v.val) : v.val[n] = Str(key)
      [] OTHER -> FALSE

\* whether v[key] raises TypeError (list indices must be integers)
IndexRaises(v) == v.kind # "obj"

\* isinstance(v, list)
IsList(v) == v.kind = "arr"

DigitStr == <<"0", "1", "2", "3", "4", "5", "6", "7", "8", "9">>

\* str(person_id)
PyStr(v) == IF v.kind = "str" THEN v.val ELSE DigitStr[v.val + 1]

-----------------------------------------------------------------------------
(* Files, directories and the face-recognition library *)

ImageSuffixes == {<<".", "j", "p", "g">>, <<".", "p", "n", "g">>,
                  <<".", "j", "p", "e", "g">>}

\* filename.endswith(suffix)
EndsWith(s, suffix) ==
    /\ Len(s) >= Len(suffix)
    /\ SubSeq(s, Len(s) - Len(suffix) + 1, Len(s)) = suffix

\* mutant: the suffix test ignores case (filename.lower().endswith)
IsImageNameAnyCase(name) ==
    \E suffix \in ImageSuffixes \cup {<<".", "J", "P", "G">>} :
        EndsWith(name, suffix)

\* filename.endswith((".jpg", ".png", ".jpeg"))
IsImageName(name) == \E suffix \in ImageSuffixes : EndsWith(name, suffix)

\* a file: its name and the embeddings of the faces face_encodings finds in it
File(name, faces) == [name |-> name, faces |-> faces]

Files ==
    { File(<<"a", ".", "j", "p", "g">>, <<5>>),
      File(<<"b", ".", "p", "n", "g">>, <<0, 7>>),
      File(<<"c", ".", "j", "p", "e", "g">>, <<7>>),
      File(<<"d", ".", "J", "P", "G">>, <<0>>),
      File(<<"e", ".", "p", "n", "g">>, <<>>) }

\* the listings a directory of n files can have: distinct names, any order
Listings(n) ==
    {s \in [1..n -> Files] : \A a, b \in 1..n : a # b => s[a].name # s[b].name}

PersonDirs == {"7", "9"}
LibraryRoot == "lib"
ProbeRoot == "probe"

FileSystems ==
    UNION { UNION { UNION {
        { [lib_exists |-> le, folders |-> [d \in PersonDirs |->
                                             IF d = "7" THEN l7 ELSE l9],
           probe_exists |-> pe, probe |-> lp] :
            l7 \in Listings(n7), l9 \in Listings(n9), lp \in Listings(np),
            le \in IF n7 + n9 = 0 THEN BOOLEAN ELSE {TRUE},
            pe \in IF np = 0 THEN BOOLEAN ELSE {TRUE} } :
        np \in 0..(MaxFiles - n7 - n9) } :
        n9 \in 0..(MaxFiles - n7) } :
        n7 \in 0..MaxFiles }

\* os.path.join(base, name), a path being the sequence of its components
PathJoin(base, name) == Append(base, name)

\* os.path.isdir(path)
IsDir(path) ==
    CASE path = <<LibraryRoot>> -> fs.lib_exists
      [] path = <<ProbeRoot>> -> fs.probe_exists
      [] Len(path) = 2 /\ path[1] = LibraryRoot ->
            fs.lib_exists /\ path[2] \in PersonDirs
      [] OTHER -> FALSE

\* os.listdir(path) of a directory without subdirectories
ListDir(path) ==
    IF path = <<ProbeRoot>> THEN fs.probe ELSE fs.folders[path[2]]

\* face_recognition.face_encodings(face_recognition.load_image_file(path))
FaceEncodings(file) == file.faces

Tolerance == 6

\* face_recognition.face_distance for one pair
Distance(a, b) == IF a >= b THEN a - b ELSE b - a

\* face_recognition.compare_faces(known, probe, tolerance)
CompareFaces(known, probe, tolerance) ==
    [n \in 1..Len(known) |-> Distance(known[n], probe) <= tolerance]

\* matches.index(True), for a list that holds True
IndexOfTrue(matches) ==
    CHOOSE n \in 1..Len(matches) :
        matches[n] /\ \A m \in 1..(n - 1) : ~matches[m]

\* mutant: best match, the index of a known encoding nearest to the probe
NearestIndex(known, probe, tolerance) ==
    CHOOSE n \in 1..Len(known) :
        \A m \in 1..Len(known) :
            \/ Distance(known[n], probe) < Distance(known[m], probe)
            \/ Distance(known[n], probe) = Distance(known[m], probe) /\ n <= m

\* lines 80-82: first_match_index, for a probe that matches a known encoding
FirstMatchIndex(known, probe, tolerance) ==
    IndexOfTrue(CompareFaces(known, probe, tolerance))

-----------------------------------------------------------------------------
(* Requests *)

Keys == {"new_images_path", "known_visitors_path", "allowed_visitor_ids"}

AllowedIds == {Num(7), Str("9"), Num(8)}

AllowedLists == UNION {[1..n -> AllowedIds] : n \in 0..MaxIds}

\* the fields of a well-formed request, allowed_visitor_ids being ids
Fields(ids) ==
    [k \in Keys |->
        CASE k = "new_images_path" -> Str(ProbeRoot)
          [] k = "known_visitors_path" -> Str(LibraryRoot)
          [] k = "allowed_visitor_ids" -> ids]

Restrict(f, S) == [k \in S |-> f[k]]

Bodies ==
    {Null, Bool(FALSE), Bool(TRUE), Num(0), Num(1), Str(""), Arr(<<>>),
     Arr(<<Str("new_images_path")>>),
     Arr(<<Str("new_images_path"), Str("known_visitors_path"),
           Str("allowed_visitor_ids")>>)}
    \cup {Obj(Restrict(Fields(Arr(<<>>)), S)) : S \in (SUBSET Keys) \ {Keys}}
    \cup {Obj(Fields(v)) : v \in {Null, Num(7), Str("7")}}
    \cup {Obj(Fields(Arr(ids))) : ids \in AllowedLists}

-----------------------------------------------------------------------------
(* Responses *)

NoResp == [code |-> 0, status |-> "", identification |-> Null,
           reason |-> "", error |-> ""]

\* jsonify({"error": error}), 400
Rejected(error) == [code |-> 400, status |-> "", identification |-> Null,
                    reason |-> "", error |-> error]

\* an exception leaves the handler: Flask answers 500
Fault == [code |-> 500, status |-> "", identification |-> Null,
          reason |-> "", error |-> ""]

\* jsonify({"status": "complete", "identification": id[, "reason": reason]})
Complete(id, reason) == [code |-> 200, status |-> "complete",
                         identification |-> id, reason |-> reason,
                         error |-> ""]

Unknown == Str("Unknown")
NoFacesReason == "No valid faces found for the provided visitor IDs."

NoMemo == [req |-> Null, resp |-> NoResp]

-----------------------------------------------------------------------------
(* identify_person_secure, lines 53-62: the validation of the request *)

\* the response that rejects the request, NoResp when it is accepted
Validate(body) ==
    IF ~Truthy(body) THEN Rejected("Missing required parameters")
    ELSE IF InRaises(body) THEN Fault
    ELSE IF \E k \in Keys : ~Contains(body, k)
        THEN Rejected("Missing required parameters")
    ELSE IF IndexRaises(body) THEN Fault
    ELSE IF ~IsList(body.val["allowed_visitor_ids"])
        THEN Rejected("'allowed_visitor_ids' must be a list")
    ELSE NoResp

new_images_path == <<data.val["new_images_path"].val>>
known_visitors_path == <<data.val["known_visitors_path"].val>>
allowed_visitor_ids == data.val["allowed_visitor_ids"].val

\* mutant: the loop visits every directory of the library
EveryFolder(base_library_path, allowed_ids) == <<Str("7"), Str("9")>>

\* the person ids the loop of load_specific_known_faces visits, in order
LoadOrder(base_library_path, allowed_ids) == allowed_ids

allowed_ids == LoadOrder(known_visitors_path, allowed_visitor_ids)
person_id == allowed_ids[person_idx]
person_folder == PathJoin(known_visitors_path, PyStr(person_id))

\* mutant: encodings[-1]
LastEncoding(encodings) == encodings[Len(encodings)]

\* encodings[0] and unknown_encodings[0]
FirstEncoding(encodings) == encodings[1]

\* mutant: the failure of os.listdir is caught and answered "Unknown"
MissingProbeDirCaught == Complete(Unknown, "")

\* line 72: os.listdir(new_images_path) raises, nothing catches it
MissingProbeDir == Fault

Init ==
    /\ fs \in FileSystems
    /\ pc = "Start"
    /\ data = Null
    /\ person_idx = 1
    /\ file_idx = 1
    /\ known_face_encodings = <<>>
    /\ known_face_names = <<>>
    /\ probe_idx = 1
    /\ load_called = FALSE
    /\ probe_listed = FALSE
    /\ decoded = {}
    /\ resp = NoResp
    /\ memo = NoMemo

\* the handler returns r
Return(r) ==
    /\ pc' = "Terminal"
    /\ resp' = r

\* lines 53-67: the request arrives, is validated, and the loader is called
Receive(body) ==
    /\ pc = "Start"
    /\ data' = body
    /\ IF Validate(body) # NoResp
          THEN /\ Return(Validate(body))
               /\ UNCHANGED load_called
          ELSE /\ pc' = "LoadingEnrollments"
               /\ load_called' = TRUE
               /\ UNCHANGED resp
    /\ UNCHANGED <<fs, person_idx, file_idx, known_face_encodings,
                   known_face_names, probe_idx, probe_listed, decoded, memo>>

Loading ==
    /\ pc = "LoadingEnrollments"
    /\ IsDir(known_visitors_path)
    /\ person_idx <= Len(allowed_ids)

\* lines 33, 44-45: the person's directory does not exist
SkipPerson ==
    /\ Loading
    /\ ~IsDir(person_folder)
    /\ person_idx' = person_idx + 1
    /\ UNCHANGED <<fs, pc, data, file_idx, known_face_encodings,
                   known_face_names, probe_idx, load_called, probe_listed,
                   decoded, resp, memo>>

\* lines 35-43: one file of the person's directory
EnrollFile ==
    /\ Loading
    /\ IsDir(person_folder)
    /\ file_idx <= Len(ListDir(person_folder))
    /\ LET file == ListDir(person_folder)[file_idx]
           encodings == FaceEncodings(file)
       IN  IF IsImageName(file.name) /\ encodings # <<>>
             THEN /\ known_face_encodings' =
                       Append(known_face_encodings, FirstEncoding(encodings))
                  /\ known_face_names' = Append(known_face_names, person_id)
             ELSE UNCHANGED <<known_face_encodings, known_face_names>>
    /\ file_idx' = file_idx + 1
    /\ UNCHANGED <<fs, pc, data, person_idx, probe_idx, load_called,
                   probe_listed, decoded, resp, memo>>

\* line 35: the person's directory is exhausted
NextPerson ==
    /\ Loading
    /\ IsDir(person_folder)
    /\ file_idx > Len(ListDir(person_folder))
    /\ person_idx' = person_idx + 1
    /\ file_idx' = 1
    /\ UNCHANGED <<fs, pc, data, known_face_encodings, known_face_names,
                   probe_idx, load_called, probe_listed, decoded, resp, memo>>

\* mutant: the probe directory is listed before the Known Set is tested
LoadReturnListFirst ==
    /\ pc = "LoadingEnrollments"
    /\ ~IsDir(known_visitors_path) \/ person_idx > Len(allowed_ids)
    /\ probe_listed' = TRUE
    /\ IF ~IsDir(new_images_path) THEN Return(MissingProbeDir)
       ELSE IF known_face_encodings = <<>>
          THEN Return(Complete(Unknown, NoFacesReason))
          ELSE pc' = "ScanningProbes" /\ UNCHANGED resp
    /\ UNCHANGED <<fs, data, person_idx, file_idx, known_face_encodings,
                   known_face_names, probe_idx, load_called, decoded, memo>>

\* mutant: the Known Set is not tested before the scan
LoadReturnNoEmptyTest ==
    /\ pc = "LoadingEnrollments"
    /\ ~IsDir(known_visitors_path) \/ person_idx > Len(allowed_ids)
    /\ probe_listed' = TRUE
    /\ IF IsDir(new_images_path)
          THEN pc' = "ScanningProbes" /\ UNCHANGED resp
          ELSE Return(MissingProbeDir)
    /\ UNCHANGED <<fs, data, person_idx, file_idx, known_face_encodings,
                   known_face_names, probe_idx, load_called, decoded, memo>>

\* lines 27-29 and 49: the loader returns; lines 69-72: the Known Set is
\* tested and the probe directory is listed
LoadReturn ==
    /\ pc = "LoadingEnrollments"
    /\ ~IsDir(known_visitors_path) \/ person_idx > Len(allowed_ids)
    /\ IF known_face_encodings = <<>>
          THEN /\ Return(Complete(Unknown, NoFacesReason))
               /\ UNCHANGED probe_listed
          ELSE /\ probe_listed' = TRUE
               /\ IF IsDir(new_images_path)
                     THEN pc' = "ScanningProbes" /\ UNCHANGED resp
                     ELSE Return(MissingProbeDir)
    /\ UNCHANGED <<fs, data, person_idx, file_idx, known_face_encodings,
                   known_face_names, probe_idx, load_called, decoded, memo>>

\* mutant: a match is noted and the scan goes on
CheckProbeKeepScanning ==
    /\ pc = "ScanningProbes"
    /\ probe_idx <= Len(ListDir(new_images_path))
    /\ LET file == ListDir(new_images_path)[probe_idx]
       IN  decoded' = IF IsImageName(file.name)
                         THEN decoded \cup {probe_idx} ELSE decoded
    /\ probe_idx' = probe_idx + 1
    /\ UNCHANGED <<fs, pc, data, person_idx, file_idx, known_face_encodings,
                   known_face_names, load_called, probe_listed, resp, memo>>

\* lines 73-86: one file of the probe directory
CheckProbe ==
    /\ pc = "ScanningProbes"
    /\ probe_idx <= Len(ListDir(new_images_path))
    /\ LET file == ListDir(new_images_path)[probe_idx]
           unknown_encodings == FaceEncodings(file)
           matches == CompareFaces(known_face_encodings,
                                   FirstEncoding(unknown_encodings), Tolerance)
       IN  /\ decoded' = IF IsImageName(file.name)
                            THEN decoded \cup {probe_idx} ELSE decoded
           /\ IF /\ IsImageName(file.name)
                 /\ unknown_encodings # <<>>
                 /\ \E n \in 1..Len(matches) : matches[n]
                THEN /\ Return(Complete(
                            known_face_names[FirstMatchIndex(
                                known_face_encodings,
                                FirstEncoding(unknown_encodings),
                                Tolerance)], ""))
                     /\ UNCHANGED probe_idx
                ELSE /\ probe_idx' = probe_idx + 1
                     /\ UNCHANGED <<pc, resp>>
    /\ UNCHANGED <<fs, data, person_idx, file_idx, known_face_encodings,
                   known_face_names, load_called, probe_listed, memo>>

\* lines 88-89: the probe directory is exhausted
NoMatch ==
    /\ pc = "ScanningProbes"
    /\ probe_idx > Len(ListDir(new_images_path))
    /\ Return(Complete(Unknown, ""))
    /\ UNCHANGED <<fs, data, person_idx, file_idx, known_face_encodings,
                   known_face_names, probe_idx, load_called, probe_listed,
                   decoded, memo>>

\* lines 24-25, 53: the next request starts from fresh locals
ResetLocals ==
    /\ pc' = "Start"
    /\ data' = Null
    /\ person_idx' = 1
    /\ file_idx' = 1
    /\ known_face_encodings' = <<>>
    /\ known_face_names' = <<>>
    /\ probe_idx' = 1
    /\ load_called' = FALSE
    /\ probe_listed' = FALSE
    /\ decoded' = {}
    /\ resp' = NoResp

\* mutant: the handler deletes the probe images it has been given
ProbesConsumed(disk) == [disk EXCEPT !.probe = <<>>]

\* lines 51-89: the handler reads the disk and never writes it
DiskAfterRequest(disk) == disk

\* the response is sent and the server waits for the next request
NextRequest ==
    /\ pc = "Terminal"
    /\ ResetLocals
    /\ fs' = DiskAfterRequest(fs)
    /\ UNCHANGED memo

Arrive == \E body \in Bodies : Receive(body)

Next ==
    \/ Arrive
    \/ SkipPerson
    \/ EnrollFile
    \/ NextPerson
    \/ LoadReturn
    \/ CheckProbe
    \/ NoMatch
    \/ NextRequest

Spec == Init /\ [][Next]_vars

\* the steps of the handler once a request is in: straight-line code and
\* loops over finite lists, which the interpreter keeps executing
Step ==
    \/ SkipPerson
    \/ EnrollFile
    \/ NextPerson
    \/ LoadReturn
    \/ CheckProbe
    \/ NoMatch

SpecLive == Init /\ [][Next]_vars /\ WF_vars(Step)

-----------------------------------------------------------------------------
(* The same request sent twice: the first response is remembered, the      *)
(* request is sent again, and the pair is forgotten after the second       *)
(* response.                                                               *)

ArriveFirst == memo = NoMemo /\ Arrive

Repeat == memo # NoMemo /\ Receive(memo.req)

Remember ==
    /\ pc = "Terminal"
    /\ memo = NoMemo
    /\ memo' = [req |-> data, resp |-> resp]
    /\ ResetLocals
    /\ fs' = DiskAfterRequest(fs)

Forget ==
    /\ pc = "Terminal"
    /\ memo # NoMemo
    /\ memo' = NoMemo
    /\ ResetLocals
    /\ fs' = DiskAfterRequest(fs)

NextTwice ==
    \/ ArriveFirst
    \/ Repeat
    \/ SkipPerson
    \/ EnrollFile
    \/ NextPerson
    \/ LoadReturn
    \/ CheckProbe
    \/ NoMatch
    \/ Remember
    \/ Forget

SpecTwice == Init /\ [][NextTwice]_vars

-----------------------------------------------------------------------------
(* Vocabulary of the properties, stated on the request and the filesystem *)

Range(s) == {s[n] : n \in 1..Len(s)}

\* the request body is an object with the three fields, the ids an array
WellFormed(body) ==
    /\ body.kind = "obj"
    /\ Keys \subseteq DOMAIN body.val
    /\ body.val["allowed_visitor_ids"].kind = "arr"

\* a required field is missing from the body
FieldMissing(body) ==
    \/ body.kind # "obj"
    \/ \E k \in Keys : k \notin DOMAIN body.val

\* the name carries one of the suffixes .jpg, .png, .jpeg, in that case
HasImageSuffix(name) ==
    \E n \in 1..Len(name) : SubSeq(name, n, Len(name)) \in ImageSuffixes

\* an image file in which a face is detected
Usable(file) == HasImageSuffix(file.name) /\ Len(file.faces) >= 1

Near(a, b) == a - b <= Tolerance /\ b - a <= Tolerance

\* the directory of the library an id names, "" when there is none
FolderOf(id) ==
    LET name == IF id.kind = "num" THEN DigitStr[id.val + 1] ELSE id.val
    IN  IF fs.lib_exists /\ name \in PersonDirs THEN name ELSE ""

\* the ids of the allow-list with an enrollment image that shows a face
EnrollableIds ==
    {id \in Range(allowed_visitor_ids) :
        /\ FolderOf(id) # ""
        /\ \E f \in Range(fs.folders[FolderOf(id)]) : Usable(f)}

\* the directories of the library no id of the allow-list names
ExcludedDirs ==
    PersonDirs \ {FolderOf(id) : id \in Range(allowed_visitor_ids)}

\* the files of the directory of an id from which a record is made
EnrolledOf(id) ==
    IF FolderOf(id) = "" THEN <<>>
    ELSE SelectSeq(fs.folders[FolderOf(id)], Usable)

\* the labels and the embeddings of the Known Set, for a list of ids
RECURSIVE ExpectedNames(_)
ExpectedNames(ids) ==
    IF ids = <<>> THEN <<>>
    ELSE LET last == ids[Len(ids)]
         IN  ExpectedNames(SubSeq(ids, 1, Len(ids) - 1))
               \o [n \in 1..Len(EnrolledOf(last)) |-> last]

RECURSIVE ExpectedEncodings(_)
ExpectedEncodings(ids) ==
    IF ids = <<>> THEN <<>>
    ELSE LET last == ids[Len(ids)]
         IN  ExpectedEncodings(SubSeq(ids, 1, Len(ids) - 1))
               \o [n \in 1..Len(EnrolledOf(last)) |->
                      EnrolledOf(last)[n].faces[1]]

\* the Known Set entries the first embedding of a probe file matches
MatchSet(file) ==
    IF Usable(file)
      THEN {n \in 1..Len(known_face_encodings) :
                Near(known_face_encodings[n], file.faces[1])}
      ELSE {}

Least(S) == CHOOSE n \in S : \A m \in S : n <= m

\* the positions of the probe files that match a Known Set entry
MatchingProbes ==
    {m \in 1..Len(fs.probe) : MatchSet(fs.probe[m]) # {}}

\* the handler answered 200 from inside the scan, at probe file probe_idx
StoppedOnMatch ==
    /\ pc = "Terminal"
    /\ resp.code = 200
    /\ probe_listed
    /\ probe_idx <= Len(fs.probe)

-----------------------------------------------------------------------------
(* C1: allow-list scoping.  Every label of the Known Set is an element of  *)
(* allowed_visitor_ids; the identification of every HTTP 200 response is   *)
(* "Unknown" or an element of allowed_visitor_ids; and when the probe      *)
(* images match no enrollment image of a directory the allow-list names    *)
(* (whatever they match in the other directories), the identification is   *)
(* "Unknown".                                                              *)
AllowListScoping ==
    /\ pc # "Start" /\ WellFormed(data) =>
          \A n \in 1..Len(known_face_names) :
              known_face_names[n] \in Range(allowed_visitor_ids)
    /\ pc = "Terminal" /\ resp.code = 200 =>
          /\ WellFormed(data)
          /\ \/ resp.identification = Unknown
             \/ resp.identification \in Range(allowed_visitor_ids)
          /\ (\A p \in Range(fs.probe) :
                \A id \in Range(allowed_visitor_ids) :
                   FolderOf(id) # "" =>
                      \A e \in Range(fs.folders[FolderOf(id)]) :
                         Usable(p) /\ Usable(e) =>
                            ~Near(e.faces[1], p.faces[1]))
                => resp.identification = Unknown

\* C1 witness: a 200 "Unknown" although a probe image matches an enrollment
\* image of a directory outside the allow-list, the Known Set not empty
ExcludedFaceIsUnknown ==
    /\ pc = "Terminal"
    /\ resp.code = 200
    /\ resp.identification = Unknown
    /\ known_face_names # <<>>
    /\ \E d \in ExcludedDirs : \E e \in Range(fs.folders[d]) :
          \E p \in Range(fs.probe) :
             Usable(e) /\ Usable(p) /\ Near(e.faces[1], p.faces[1])

-----------------------------------------------------------------------------
(* C2: first match wins.  When the scan stops at a probe image whose first *)
(* embedding matches several Known Set entries, the identification is the  *)
(* label of the matching entry of least index, whatever the distances.     *)
FirstMatchWins ==
    StoppedOnMatch /\ Cardinality(MatchSet(fs.probe[probe_idx])) >= 2 =>
        resp.identification =
            known_face_names[Least(MatchSet(fs.probe[probe_idx]))]

\* C2 witness: the winner is farther from the probe than a later matching
\* entry that carries another label
FartherEarlierEntryWon ==
    /\ StoppedOnMatch
    /\ LET probe == fs.probe[probe_idx].faces[1]
           first == Least(MatchSet(fs.probe[probe_idx]))
       IN  \E n \in MatchSet(fs.probe[probe_idx]) :
              /\ n > first
              /\ known_face_names[n] # known_face_names[first]
              /\ Distance(known_face_encodings[n], probe)
                    < Distance(known_face_encodings[first], probe)
              /\ resp.identification = known_face_names[first]

-----------------------------------------------------------------------------
(* C3: the first matching probe ends the scan.  While scanning, no probe   *)
(* file passed so far matched and no file further on has been decoded.     *)
(* When the answer is 200 after the probe directory was listed: if some    *)
(* probe image matches, the scan stopped at the first of them, that image  *)
(* decided the identification, and exactly the image files up to it were   *)
(* decoded; otherwise every image file was decoded and none matched.       *)
FirstMatchingProbeEndsScan ==
    /\ pc = "ScanningProbes" =>
          /\ decoded \subseteq 1..(probe_idx - 1)
          /\ \A m \in MatchingProbes : m >= probe_idx
    /\ pc = "Terminal" /\ resp.code = 200 /\ probe_listed =>
          IF MatchingProbes # {}
            THEN /\ probe_idx = Least(MatchingProbes)
                 /\ resp.identification = known_face_names[
                        Least(MatchSet(fs.probe[Least(MatchingProbes)]))]
                 /\ decoded = {m \in 1..Least(MatchingProbes) :
                                  HasImageSuffix(fs.probe[m].name)}
            ELSE /\ resp.identification = Unknown
                 /\ decoded = {m \in 1..Len(fs.probe) :
                                  HasImageSuffix(fs.probe[m].name)}

\* C3 witness: the scan stopped on a match and an image file after it was
\* never decoded
LaterProbeNotInspected ==
    /\ StoppedOnMatch
    /\ resp.identification # Unknown
    /\ \E m \in (probe_idx + 1)..Len(fs.probe) :
          HasImageSuffix(fs.probe[m].name) /\ m \notin decoded

-----------------------------------------------------------------------------
(* C4: an empty Known Set is a normal outcome.  When no id of the          *)
(* allow-list has an enrollment image with a detectable face (the library  *)
(* is no directory, the list is empty, the ids have no directory, or no    *)
(* image shows a face), the answer is 200, "complete", "Unknown", with a   *)
(* reason, and the probe directory was neither listed nor read.            *)
EmptyKnownSetIsNormal ==
    pc = "Terminal" /\ WellFormed(data) /\ EnrollableIds = {} =>
        /\ known_face_encodings = <<>>
        /\ resp.code = 200
        /\ resp.status = "complete"
        /\ resp.identification = Unknown
        /\ resp.reason # ""
        /\ ~probe_listed
        /\ decoded = {}

\* C4 witness: ids were given, the library exists, nothing could be
\* enrolled, and the probe directory does not even exist
EmptyKnownSetWithoutProbeDir ==
    /\ pc = "Terminal"
    /\ WellFormed(data)
    /\ allowed_visitor_ids # <<>>
    /\ fs.lib_exists
    /\ EnrollableIds = {}
    /\ ~fs.probe_exists
    /\ resp.code = 200

-----------------------------------------------------------------------------
(* C5: request validation.  A body in which a required field is missing    *)
(* (null, not an object, or an object lacking a field) is answered 400     *)
(* "Missing required parameters"; all fields present and the ids not an    *)
(* array is answered 400 "'allowed_visitor_ids' must be a list"; neither   *)
(* loads enrollments or scans probes; nothing else is answered 400.        *)
RequestValidation ==
    pc = "Terminal" =>
        /\ FieldMissing(data) =>
              resp = Rejected("Missing required parameters")
        /\ ~FieldMissing(data)
              /\ data.val["allowed_visitor_ids"].kind # "arr" =>
              resp = Rejected("'allowed_visitor_ids' must be a list")
        /\ resp.code = 400 =>
              /\ ~load_called /\ ~probe_listed /\ decoded = {}
              /\ \/ FieldMissing(data)
                 \/ data.val["allowed_visitor_ids"].kind # "arr"

-----------------------------------------------------------------------------
(* C6: no evidence means Unknown.  For a validated request whose probe     *)
(* directory exists, if no embedding of any probe image matches a Known    *)
(* Set entry (no image file, no face, or no match), the answer is 200,     *)
(* "complete", "Unknown"; and a label is answered only when the first      *)
(* embedding of some probe image matches a Known Set entry.                *)
NoEvidenceMeansUnknown ==
    pc = "Terminal" /\ WellFormed(data) =>
        /\ (/\ fs.probe_exists
            /\ \A p \in Range(fs.probe) : HasImageSuffix(p.name) =>
                  \A e \in Range(p.faces) :
                     \A n \in 1..Len(known_face_encodings) :
                        ~Near(known_face_encodings[n], e))
             => /\ resp.code = 200
                /\ resp.status = "complete"
                /\ resp.identification = Unknown
        /\ resp.code = 200 /\ resp.identification # Unknown =>
              \E p \in Range(fs.probe) : MatchSet(p) # {}

\* C6 witness: enrollments were loaded, a probe image shows a face, nothing
\* matches, and the answer is "Unknown" without a reason
FacesWithoutMatch ==
    /\ pc = "Terminal"
    /\ WellFormed(data)
    /\ known_face_encodings # <<>>
    /\ \E p \in Range(fs.probe) : Usable(p)
    /\ MatchingProbes = {}
    /\ resp = Complete(Unknown, "")

-----------------------------------------------------------------------------
(* C8: Known Set construction and order.  Once loading is over the Known   *)
(* Set holds one record per image-suffixed file with a detected face, made *)
(* of the id and the first embedding of the image, in the order of the ids *)
(* in allowed_ids and, within an id, of the directory's enumeration; an id *)
(* without directory contributes nothing.                                  *)
KnownSetConstruction ==
    pc \in {"ScanningProbes", "Terminal"} /\ WellFormed(data) =>
        /\ known_face_names = ExpectedNames(allowed_visitor_ids)
        /\ known_face_encodings = ExpectedEncodings(allowed_visitor_ids)

\* C8 witness: an id enrolled twice, beside a file that was skipped and an
\* id that has no directory
LabelEnrolledTwice ==
    /\ pc \in {"ScanningProbes", "Terminal"}
    /\ WellFormed(data)
    /\ Len(known_face_names) = 2
    /\ known_face_names[1] = known_face_names[2]
    /\ Len(fs.folders[FolderOf(known_face_names[1])]) = 3
    /\ \E id \in Range(allowed_visitor_ids) : FolderOf(id) = ""

-----------------------------------------------------------------------------
(* C9 as stated: every validated request whose probe directory does not    *)
(* exist ends in HTTP 500.                                                 *)
MissingProbeDirAlwaysFails ==
    pc = "Terminal" /\ WellFormed(data) /\ ~fs.probe_exists =>
        resp.code = 500

(* C9 amended: every validated request whose probe directory does not      *)
(* exist and for which some id of the allow-list has an enrollment image   *)
(* with a detectable face (the Known Set is not empty) ends in HTTP 500.   *)
MissingProbeDirFailsAfterEnrollment ==
    pc = "Terminal" /\ WellFormed(data) /\ ~fs.probe_exists
        /\ EnrollableIds # {} =>
        resp = Fault

\* C9 witness: enrollments loaded, no probe directory, HTTP 500
FaultOnMissingProbeDir ==
    /\ pc = "Terminal"
    /\ WellFormed(data)
    /\ ~fs.probe_exists
    /\ known_face_encodings # <<>>
    /\ resp.code = 500

-----------------------------------------------------------------------------
-----------------------------------------------------------------------------
(* C10: linear life cycle.  A request moves Start -> LoadingEnrollments -> *)
(* ScanningProbes -> Terminal, a validated one through LoadingEnrollments, *)
(* never back; each step inside a phase advances its loop and keeps the    *)
(* records loaded so far; ScanningProbes is entered only from a finished   *)
(* loading that left the Known Set non-empty; and a request that is being  *)
(* loaded eventually reaches Terminal, where, unless a fault ended it, it  *)
(* is exactly one of MatchFound, NoMatch, EmptyEnrollment.                 *)
MatchFound ==
    /\ StoppedOnMatch
    /\ resp.status = "complete"
    /\ resp.identification \in Range(known_face_names)
    /\ resp.reason = ""

NoMatchFound ==
    /\ probe_listed
    /\ probe_idx > Len(fs.probe)
    /\ resp = Complete(Unknown, "")

EmptyEnrollment ==
    /\ known_face_encodings = <<>>
    /\ resp.code = 200
    /\ resp.status = "complete"
    /\ resp.identification = Unknown
    /\ resp.reason # ""

OneTerminal ==
    \/ MatchFound /\ ~NoMatchFound /\ ~EmptyEnrollment
    \/ ~MatchFound /\ NoMatchFound /\ ~EmptyEnrollment
    \/ ~MatchFound /\ ~NoMatchFound /\ EmptyEnrollment

IsPrefix(s, t) == Len(s) <= Len(t) /\ SubSeq(t, 1, Len(s)) = s

LifeCycleStep ==
    /\ pc = "Start" =>
          /\ pc' \in {"LoadingEnrollments", "Terminal"}
          /\ pc' = "LoadingEnrollments" <=> WellFormed(data')
    /\ pc = "LoadingEnrollments" =>
          /\ pc' \in {"LoadingEnrollments", "ScanningProbes", "Terminal"}
          /\ IsPrefix(known_face_names, known_face_names')
          /\ IsPrefix(known_face_encodings, known_face_encodings')
          /\ pc' = "LoadingEnrollments" =>
                \/ person_idx' > person_idx
                \/ person_idx' = person_idx /\ file_idx' > file_idx
          /\ pc' = "ScanningProbes" =>
                /\ ~fs.lib_exists \/ person_idx > Len(allowed_visitor_ids)
                /\ known_face_encodings' # <<>>
                /\ known_face_encodings' = known_face_encodings
    /\ pc = "ScanningProbes" =>
          /\ pc' \in {"ScanningProbes", "Terminal"}
          /\ pc' = "ScanningProbes" => probe_idx' > probe_idx
          /\ UNCHANGED <<known_face_names, known_face_encodings>>
    /\ pc = "Terminal" => pc' = "Start"

LinearLifeCycle ==
    /\ [][LifeCycleStep]_vars
    /\ (pc = "LoadingEnrollments") ~>
          (pc = "Terminal" /\ (resp = Fault \/ OneTerminal))

\* C10 witness: a request that went through both phases and ended in
\* MatchFound after a probe file without match
MatchAfterBothPhases ==
    /\ pc = "Terminal"
    /\ MatchFound
    /\ OneTerminal
    /\ Len(known_face_names) >= 2
    /\ probe_idx >= 2

=============================================================================
